---- MODULE Spec2Model ----
(***************************************************************************)
(* FlightTracker: the live-marker reconciliation of MapView, the polling   *)
(* of App (loadFlights), the time-window / search derivation               *)
(* (displayedFlights) and the ingestion of aviationService                 *)
(* (fetchArrivals).                                                        *)
(*                                                                         *)
(* Encoding of JavaScript values:                                          *)
(*   - an optional value (T | null | undefined) is a tuple: <<>> is        *)
(*     null/undefined, <<v>> is the value v;                               *)
(*   - a string is a tuple of one-character strings, '' is <<>>;           *)
(*   - an ISO-8601 time string is <<ms>>, the instant it denotes, so a     *)
(*     time string is truthy whatever its instant (also for instant 0).    *)
(***************************************************************************)
EXTENDS Integers, Sequences, FiniteSets, TLC

VARIABLES
    \* ---- App of src/unnamed/part_000 hosting MapView ----
    viewMode,        \* 'list' | 'map'
    flights,         \* the flights prop MapView was last rendered with
    mounted,         \* whether a MapView instance is mounted
    mapInstanceRef,  \* <<>> or <<map instance>>
    lastMap,         \* identity of the most recently created map instance
    markersRef,      \* id -> marker handle
    mapLayers,       \* identities of the marker handles added to the map
    lastOp,          \* the last run of the reconciliation effect: whether it was
                     \* given the flights it had been given before, and whether
                     \* it removed a marker
    \* ---- App: polling (loadFlights and the polling effect) ----
    mode,            \* 'arrivals' | 'departures'
    allFlights,      \* the record list held by App
    loading,         \* the loading flag
    error,           \* <<>> or <<message>>
    lastUpdated,     \* <<>> or <<instant of the last successful load>>
    hasLoadedRef,    \* hasLoadedRef.current
    interval,        \* <<>> or <<the mode the armed timer's loadFlights closes over>>
    pending,         \* the calls of loadFlights awaiting their fetch
    nextReq,         \* number of fetches started so far
    settled,         \* the fetches that settled, in the order they settled
    heldReq,         \* the fetch whose result allFlights holds (0: none)
    \* ---- App: the derived list (displayedFlights) ----
    appVersion,      \* "App.tsx" (modes) or "part_000" (arrivals only, with the map)
    timeRange,       \* the selected window, in hours
    searchTerm,      \* the search box's text
    clock,           \* the wall clock, in ms
    memoNow,         \* what new Date() gave the last evaluation of the useMemo
    displayedFlights, \* the value of the useMemo
    \* ---- aviationService: fetchArrivals ----
    response,        \* the HTTP response the fetch in flight will get
    fetched          \* <<>> while the fetch is in flight, else <<its outcome>>

mapVars == <<viewMode, flights, mounted, mapInstanceRef, lastMap, markersRef,
             mapLayers, lastOp>>

pollVars == <<mode, allFlights, loading, error, lastUpdated, hasLoadedRef, interval,
              pending, nextReq, settled, heldReq>>

deriveVars == <<appVersion, timeRange, searchTerm, clock, memoNow, displayedFlights>>

ingestVars == <<response, fetched>>

vars == <<mapVars, pollVars, deriveVars, ingestVars>>

Null == <<>>
Some(v) == <<v>>

\* JavaScript truthiness of an optional number: null, undefined and 0 are falsy.
NumTruthy(x) == x # Null /\ x[1] # 0

\* JavaScript `x || d` on an optional number.
NumOr(x, d) == IF NumTruthy(x) THEN x[1] ELSE d

\* JavaScript `a || b` on strings: '' is falsy.
StrOr(a, b) == IF a # <<>> THEN a ELSE b

(***************************************************************************)
(* MapView                                                                 *)
(***************************************************************************)

\* const id = flight.flight.iata || flight.flight.number
markerId(f) == StrOr(f.flight.iata, f.flight.number)

\* f.live && f.live.latitude && f.live.longitude
HasLiveLocation(f) ==
    /\ f.live # Null
    /\ NumTruthy(f.live[1].latitude)
    /\ NumTruthy(f.live[1].longitude)

\* flights.filter(f => f.live && f.live.latitude && f.live.longitude)
activeFlights(fs) == SelectSeq(fs, HasLiveLocation)

\* The identities of the marker handles that are alive.
LiveHandles(markers, layers) == {markers[k].h : k \in DOMAIN markers} \cup layers

\* L.marker(...) returns a new object, distinct from every live one.
NewHandle(markers, layers) ==
    CHOOSE n \in 1..(Cardinality(LiveHandles(markers, layers)) + 1) :
        /\ n \notin LiveHandles(markers, layers)
        /\ \A m \in 1..(n - 1) : m \in LiveHandles(markers, layers)

\* rotate(${dir - 45}deg), dir = flight.live.direction || 0
iconOf(f) == NumOr(f.live[1].direction, 0) - 45

\* The popup's text: id, airline, origin, altitude and speed.
popupContent(f) ==
    [ id       |-> markerId(f),
      airline  |-> f.airline.name,
      from     |-> StrOr(f.departure.airport, f.departure.iata),
      altitude |-> NumOr(f.live[1].altitude, 0),
      speed    |-> NumOr(f.live[1].speed_horizontal, 0) ]

Extend(fn, k, v) == [x \in DOMAIN fn \cup {k} |-> IF x = k THEN v ELSE fn[x]]

Without(fn, ks) == [x \in DOMAIN fn \ ks |-> fn[x]]

EmptyTable == [x \in {} |-> {}]

UpsertAlwaysCreate(st, f) ==
    LET id == markerId(f)
        h  == NewHandle(st.markers, st.layers)
    IN  [ st EXCEPT
            !.valid   = @ \cup {id},
            !.markers = Extend(@, id,
                [ h |-> h, latlng |-> <<f.live[1].latitude[1], f.live[1].longitude[1]>>,
                  icon |-> iconOf(f), popup |-> popupContent(f) ]),
            !.layers  = @ \cup {h},
            !.created = @ \cup {h} ]

\* The body of activeFlights.forEach: update the marker of the flight's id in
\* place, or create one, add it to the map and register it.
Upsert(st, f) ==
    LET id == markerId(f) IN
    IF id \in DOMAIN st.markers
    THEN [ st EXCEPT
            !.valid   = @ \cup {id},
            !.markers = [ @ EXCEPT ![id] =
                [ @ EXCEPT !.latlng = <<f.live[1].latitude[1], f.live[1].longitude[1]>>,
                           !.icon   = iconOf(f),
                           !.popup  = popupContent(f) ] ],
            !.updated = @ \cup {id} ]
    ELSE LET h == NewHandle(st.markers, st.layers) IN
         [ st EXCEPT
            !.valid   = @ \cup {id},
            !.markers = Extend(@, id,
                [ h |-> h, latlng |-> <<f.live[1].latitude[1], f.live[1].longitude[1]>>,
                  icon |-> iconOf(f), popup |-> popupContent(f) ]),
            !.layers  = @ \cup {h},
            !.created = @ \cup {h} ]

RECURSIVE UpsertAll(_, _)
UpsertAll(st, fs) ==
    IF fs = <<>> THEN st ELSE UpsertAll(Upsert(st, Head(fs)), Tail(fs))

RemoveOldKeepsAll(st) == st

\* Object.keys(currentMarkers).forEach: a marker whose id is not in
\* validFlightIds is removed from the map and deleted from the table.
RemoveOld(st) ==
    LET old == DOMAIN st.markers \ st.valid IN
    [ st EXCEPT
        !.markers = Without(@, old),
        !.layers  = @ \ {st.markers[k].h : k \in old},
        !.removed = {st.markers[k].h : k \in old} ]

\* One run of the reconciliation effect on the table `markers` and the map's
\* marker layers `layers`, for the flights prop `fs`.
Reconcile(markers, layers, fs) ==
    RemoveOld(UpsertAll(
        [ markers |-> markers, layers |-> layers, valid |-> {},
          created |-> {}, updated |-> {}, removed |-> {} ],
        activeFlights(fs)))

NoOp == [ same |-> FALSE, removed |-> FALSE ]

(***************************************************************************)
(* Inputs of the map component: flight records, as a poll may deliver them *)
(***************************************************************************)

MaxMapFlights == 2

Flight(iata, number, live) ==
    [ flight    |-> [iata |-> iata, number |-> number],
      airline   |-> [name |-> <<"S", "w">>],
      departure |-> [airport |-> <<"R">>, iata |-> <<"F", "C", "O">>],
      live      |-> live ]

Telemetry(lat, lng, dir, alt) ==
    Some([ latitude |-> lat, longitude |-> lng, direction |-> dir, altitude |-> alt,
           speed_horizontal |-> alt ])

\* Three flight identifications: two with an IATA code, one with a number only.
IdentX == <<"X">>
IdentY == <<"Y">>
IdentZ == <<"Z">>

MapFlightPool ==
    { Flight(IdentX, <<"1">>, Telemetry(Some(47), Some(8), Some(90), Some(1000))),
      Flight(IdentX, <<"1">>, Telemetry(Some(46), Some(7), Null, Null)),
      Flight(IdentY, <<"2">>, Telemetry(Some(47), Some(8), Some(90), Some(1000))),
      Flight(IdentY, <<"2">>, Telemetry(Some(47), Some(0), Some(90), Some(1000))),
      Flight(<<>>, IdentZ, Telemetry(Some(47), Some(8), Some(90), Some(1000))),
      Flight(<<>>, IdentZ, Null) }

SeqsUpTo(S, n) == UNION {[1..k -> S] : k \in 0..n}

MapSnapshots == SeqsUpTo(MapFlightPool, MaxMapFlights)

(***************************************************************************)
(* The App of src/unnamed/part_000 renders <MapView flights={displayed-    *)
(* Flights}/> only while viewMode = 'map' and the derived list is          *)
(* non-empty. A render either mounts MapView (map-init effect, then the    *)
(* reconciliation effect), re-runs the reconciliation effect for a new     *)
(* flights prop, or unmounts it (the init effect's cleanup).               *)
(***************************************************************************)

\* viewMode === 'map' && displayedFlights.length > 0
ShowsMap(vm, fs) == vm = "map" /\ Len(fs) > 0

\* A map instance distinct from the one created before it.
NewMap(prev) == IF prev = 1 THEN 2 ELSE 1

\* MapView is mounted: L.map(...) is stored in mapInstanceRef, then the
\* reconciliation effect runs on the empty markersRef.
MountMapView(fs) ==
    \E r \in {Reconcile(EmptyTable, {}, fs)} :
        /\ mounted' = TRUE
        /\ lastMap' = NewMap(lastMap)
        /\ mapInstanceRef' = Some(NewMap(lastMap))
        /\ markersRef' = r.markers
        /\ mapLayers' = r.layers
        /\ lastOp' = [ same |-> FALSE, removed |-> r.removed # {} ]

\* MapView stays mounted and its flights prop is a new array: the
\* reconciliation effect runs (it returns at once without a map instance).
UpdateMapView(fs) ==
    /\ UNCHANGED <<mounted, lastMap, mapInstanceRef>>
    /\ IF mapInstanceRef = Null
       THEN /\ UNCHANGED <<markersRef, mapLayers>>
            /\ lastOp' = NoOp
       ELSE \E r \in {Reconcile(markersRef, mapLayers, fs)} :
            /\ markersRef' = r.markers
            /\ mapLayers' = r.layers
            /\ lastOp' = [ same |-> (fs = flights), removed |-> r.removed # {} ]

\* MapView is unmounted: map.remove(), mapInstanceRef.current = null; the
\* component's refs go with it.
UnmountMapView ==
    /\ mounted' = FALSE
    /\ mapInstanceRef' = Null
    /\ markersRef' = EmptyTable
    /\ mapLayers' = {}
    /\ lastOp' = NoOp
    /\ UNCHANGED lastMap

RenderApp(vm, fs, newFlights) ==
    IF ShowsMap(vm, fs)
    THEN IF mounted
         THEN IF newFlights THEN UpdateMapView(fs)
              ELSE UNCHANGED <<mounted, lastMap, mapInstanceRef, markersRef, mapLayers, lastOp>>
         ELSE MountMapView(fs)
    ELSE IF mounted
         THEN UnmountMapView
         ELSE /\ UNCHANGED <<mounted, lastMap, mapInstanceRef, markersRef, mapLayers>>
              /\ lastOp' = NoOp

\* displayedFlights is recomputed (a poll was applied, or the window or the
\* search term changed): a new array, also when its content is the same.
SetDisplayedFlights(fs) ==
    /\ flights' = fs
    /\ UNCHANGED <<viewMode, pollVars, deriveVars, ingestVars>>
    /\ RenderApp(viewMode, fs, TRUE)

\* onClick={() => setViewMode('list' | 'map')}
SetViewMode(vm) ==
    /\ vm # viewMode
    /\ viewMode' = vm
    /\ UNCHANGED <<flights, pollVars, deriveVars, ingestVars>>
    /\ RenderApp(vm, flights, FALSE)

\* No fetch of the service is modelled: no response, no outcome.
IngestIdle == response = <<>> /\ fetched = <<>>

PollIdle ==
    /\ mode = "arrivals"
    /\ allFlights = <<>>
    /\ loading = FALSE
    /\ error = Null
    /\ lastUpdated = Null
    /\ hasLoadedRef = FALSE
    /\ interval = Null
    /\ pending = {}
    /\ nextReq = 0
    /\ settled = <<>>
    /\ heldReq = 0

DeriveIdle ==
    /\ appVersion = "App.tsx"
    /\ timeRange = 1
    /\ searchTerm = <<>>
    /\ clock = 0
    /\ memoNow = 0
    /\ displayedFlights = <<>>

MapInit ==
    /\ PollIdle
    /\ DeriveIdle
    /\ IngestIdle
    /\ viewMode = "list"
    /\ flights = <<>>
    /\ mounted = FALSE
    /\ mapInstanceRef = Null
    /\ lastMap = 0
    /\ markersRef = EmptyTable
    /\ mapLayers = {}
    /\ lastOp = NoOp

MapNext ==
    \/ \E fs \in MapSnapshots : SetDisplayedFlights(fs)
    \/ \E vm \in {"list", "map"} : SetViewMode(vm)

MapSpec == MapInit /\ [][MapNext]_vars

(***************************************************************************)
(* Claims on the marker reconciliation                                     *)
(***************************************************************************)

\* Usable live telemetry as the specification defines it: live telemetry is
\* present and both latitude and longitude are defined (0 is a defined value).
UsableLiveTelemetry(f) ==
    /\ f.live # Null
    /\ f.live[1].latitude # Null
    /\ f.live[1].longitude # Null

UsableIds(fs) == {markerId(fs[i]) : i \in {j \in 1..Len(fs) : UsableLiveTelemetry(fs[j])}}

ActiveIds(fs) == {markerId(fs[i]) : i \in {j \in 1..Len(fs) : HasLiveLocation(fs[j])}}

HandleSet(markers) == {markers[k].h : k \in DOMAIN markers}

\* C1: with the map initialized, the identifiers that own a marker handle
\* are exactly the identifiers of the records with usable live telemetry in
\* the snapshot applied last.
C1_MarkerIdsAreUsableIds ==
    mapInstanceRef # Null => DOMAIN markersRef = UsableIds(flights)

\* What holds of the code in place of C1: the identifiers that own a handle
\* are those of the records that pass the truthiness filter of the effect.
MarkerIdsAreActiveIds ==
    mapInstanceRef # Null =>
        /\ DOMAIN markersRef = ActiveIds(flights)
        /\ mapLayers = HandleSet(markersRef)

\* C2: applying a snapshot with live identifiers {Y, Z} after one with live
\* identifiers {X, Y} removes X's handle from the table and the map, keeps
\* the very handle object of Y, and creates a handle for Z.
C2_CleanupReuseCreate ==
    [][ LET A == UsableIds(flights)
            B == UsableIds(flights')
        IN  ( /\ mapInstanceRef # Null /\ mapInstanceRef' # Null
              /\ Cardinality(A) = 2 /\ Cardinality(B) = 2
              /\ Cardinality(A \cap B) = 1 )
            =>
            /\ \A x \in A \ B :
                /\ x \in DOMAIN markersRef
                /\ x \notin DOMAIN markersRef'
                /\ markersRef[x].h \notin mapLayers'
            /\ \A y \in A \cap B :
                /\ y \in DOMAIN markersRef
                /\ y \in DOMAIN markersRef'
                /\ markersRef'[y].h = markersRef[y].h
            /\ \A z \in B \ A :
                /\ z \in DOMAIN markersRef'
                /\ markersRef'[z].h \in mapLayers'
                /\ markersRef'[z].h \notin HandleSet(markersRef) \ {markersRef[x].h : x \in A \ B}
      ]_vars

\* No identifier has two handles: the handles of the table are distinct and
\* are exactly the marker layers of the map.
OneHandlePerId ==
    /\ \A j, k \in DOMAIN markersRef : markersRef[j].h = markersRef[k].h => j = k
    /\ mapLayers = HandleSet(markersRef)

\* C3: applying to the mounted map the snapshot it was given last changes
\* nothing: no handle is created or removed, the marker ids and every
\* handle's position, icon and popup stay, and no id has two handles.
C3_ReapplyIsIdempotent ==
    [][ (mounted /\ mounted' /\ flights' = flights)
        => (markersRef' = markersRef /\ mapLayers' = mapLayers /\ OneHandlePerId')
      ]_vars

\* A snapshot holding two live records of one identifier was applied twice.
C3_Witness ==
    /\ mounted
    /\ lastOp.same
    /\ \E i, j \in 1..Len(flights) :
        /\ i < j
        /\ HasLiveLocation(flights[i]) /\ HasLiveLocation(flights[j])
        /\ markerId(flights[i]) = markerId(flights[j])
        /\ flights[i] # flights[j]

\* C4 as stated: applying a snapshot with no usable live telemetry to the
\* initialized map removes every handle and keeps the map widget.
C4_NoLiveKeepsMap ==
    [][ (mapInstanceRef # Null /\ viewMode' = viewMode /\ UsableIds(flights') = {})
        => (markersRef' = EmptyTable /\ mapInstanceRef' = mapInstanceRef)
      ]_vars

\* C4 amended: a non-empty snapshot with no usable live telemetry removes
\* every handle and keeps the map instance, which stays the same for as
\* long as MapView stays mounted; an empty snapshot unmounts MapView and
\* tears the map widget down, and the next mount creates another instance.
C4_NonEmptyNoLiveKeepsMap ==
    [][ /\ (mapInstanceRef # Null /\ viewMode' = viewMode /\ Len(flights') > 0
                /\ UsableIds(flights') = {})
           => (markersRef' = EmptyTable /\ mapLayers' = {}
                /\ mapInstanceRef' = mapInstanceRef)
        /\ (mounted /\ mounted') => (mapInstanceRef' = mapInstanceRef /\ mapInstanceRef # Null)
        /\ (mapInstanceRef # Null /\ viewMode' = viewMode /\ flights' = <<>>
                /\ flights # <<>>)
           => (mapInstanceRef' = Null /\ ~mounted')
        /\ (mapInstanceRef = Null /\ mapInstanceRef' # Null)
           => (mapInstanceRef' # Some(lastMap))
      ]_vars

\* A non-empty snapshot without live telemetry was applied and removed the
\* markers of the mounted map.
C4_Witness ==
    /\ mounted
    /\ mapInstanceRef # Null
    /\ flights # <<>>
    /\ UsableIds(flights) = {}
    /\ lastOp.removed
    /\ markersRef = EmptyTable

\* C5: a record takes part in the reconciliation exactly when its live
\* telemetry is present with latitude and longitude defined: the last such
\* record of an identifier decides the position of the identifier's marker
\* (also at latitude or longitude 0), and an identifier without such a
\* record has no marker.
C5_MarkerIffLiveDefined ==
    mapInstanceRef # Null =>
        /\ \A i \in 1..Len(flights) :
            ( /\ UsableLiveTelemetry(flights[i])
              /\ \A j \in (i + 1)..Len(flights) :
                    ~(UsableLiveTelemetry(flights[j])
                        /\ markerId(flights[j]) = markerId(flights[i])) )
            => /\ markerId(flights[i]) \in DOMAIN markersRef
               /\ markersRef[markerId(flights[i])].latlng =
                    <<flights[i].live[1].latitude[1], flights[i].live[1].longitude[1]>>
        /\ \A k \in DOMAIN markersRef : k \in UsableIds(flights)

(***************************************************************************)
(* App: loadFlights and the polling effect                                 *)
(***************************************************************************)

MaxRequests == 4

MaxItems == 1

Modes == {"arrivals", "departures"}

\* The messages a rejected fetch may carry ('' for an error without message).
ErrorMessages == {"", "Network error: 500"}

DefaultErrorMessage == "An unexpected error occurred while fetching flight data."

\* A list of n records as the fetch started as number `req` for `m` returns it.
Payload(req, m, n) == [i \in 1..n |-> [req |-> req, mode |-> m, item |-> i]]

\* A loadFlights() that starts two fetches in one call.
StartLoadTwice(m, loaded) ==
    /\ nextReq < MaxRequests
    /\ loading' = (IF appVersion = "part_000" \/ ~loaded THEN TRUE ELSE loading)
    /\ error' = Null
    /\ nextReq' = nextReq + 2
    /\ pending' = pending \cup {[req |-> nextReq + 1, mode |-> m], [req |-> nextReq + 2, mode |-> m]}

\* loadFlights() up to its await, called with hasLoadedRef.current = loaded:
\* the spinner is shown unless a load has completed, the error is cleared
\* and fetchFlights(mode) is started for the mode the callback closes over.
\* In src/unnamed/part_000 the test is allFlights.length === 0 on the
\* allFlights of the first render, which the callback (dependencies [])
\* closes over: it is true in every call.
StartLoad(m, loaded) ==
    /\ nextReq < MaxRequests
    /\ loading' = (IF appVersion = "part_000" \/ ~loaded THEN TRUE ELSE loading)
    /\ error' = Null
    /\ nextReq' = nextReq + 1
    /\ pending' = pending \cup {[req |-> nextReq + 1, mode |-> m]}

\* A continuation that adds the records fetched to the records held.
FetchResolvesMerges(p, n) ==
    /\ p \in pending
    /\ pending' = pending \ {p}
    /\ allFlights' = allFlights \o Payload(p.req, p.mode, n)
    /\ heldReq' = p.req
    /\ lastUpdated' = Some(Len(settled) + 1)
    /\ hasLoadedRef' = (appVersion = "App.tsx")
    /\ loading' = FALSE
    /\ settled' = Append(settled, [req |-> p.req, ok |-> TRUE, msg |-> ""])
    /\ UNCHANGED <<mode, error, interval, nextReq>>

\* The fetch of call p resolves with n records: setAllFlights(data),
\* setLastUpdated(new Date()), hasLoadedRef.current = true, and in the
\* finally block setLoading(false).
FetchResolves(p, n) ==
    /\ p \in pending
    /\ pending' = pending \ {p}
    /\ allFlights' = Payload(p.req, p.mode, n)
    /\ heldReq' = p.req
    /\ lastUpdated' = Some(Len(settled) + 1)
    /\ hasLoadedRef' = (appVersion = "App.tsx")
    /\ loading' = FALSE
    /\ settled' = Append(settled, [req |-> p.req, ok |-> TRUE, msg |-> ""])
    /\ UNCHANGED <<mode, error, interval, nextReq>>

\* A catch block that also empties the list.
FetchRejectsClearsList(p, msg) ==
    /\ p \in pending
    /\ pending' = pending \ {p}
    /\ error' = Some(IF msg # "" THEN msg ELSE DefaultErrorMessage)
    /\ loading' = FALSE
    /\ allFlights' = <<>>
    /\ settled' = Append(settled, [req |-> p.req, ok |-> FALSE, msg |-> msg])
    /\ UNCHANGED <<mode, heldReq, lastUpdated, hasLoadedRef, interval, nextReq>>

\* The fetch of call p rejects with an error whose message is msg:
\* setError(err.message || default), and in the finally block setLoading(false).
FetchRejects(p, msg) ==
    /\ p \in pending
    /\ pending' = pending \ {p}
    /\ error' = Some(IF msg # "" THEN msg ELSE DefaultErrorMessage)
    /\ loading' = FALSE
    /\ settled' = Append(settled, [req |-> p.req, ok |-> FALSE, msg |-> msg])
    /\ UNCHANGED <<mode, allFlights, heldReq, lastUpdated, hasLoadedRef, interval, nextReq>>

\* A timer callback that calls loadFlights() before it sets
\* hasLoadedRef.current to true.
TimerTickSetsRefLate ==
    /\ hasLoadedRef' = (appVersion = "App.tsx")
    /\ \E i \in 1..Len(interval) : StartLoad(interval[i], hasLoadedRef)
    /\ UNCHANGED <<mode, allFlights, heldReq, lastUpdated, interval, settled>>

\* One of the armed 60-second timers fires: hasLoadedRef.current = true;
\* loadFlights() (in src/unnamed/part_000, which has no hasLoadedRef:
\* loadFlights()). interval[i] is the mode the loadFlights of timer i closes over.
TimerTick ==
    /\ hasLoadedRef' = (appVersion = "App.tsx")
    /\ \E i \in 1..Len(interval) : StartLoad(interval[i], TRUE)
    /\ UNCHANGED <<mode, allFlights, heldReq, lastUpdated, interval, settled>>

\* The refresh button of the mounted App (disabled while loading):
\* hasLoadedRef.current = false; loadFlights().
ManualRefresh ==
    /\ interval # Null
    /\ ~loading
    /\ hasLoadedRef' = FALSE
    /\ StartLoad(mode, FALSE)
    /\ UNCHANGED <<mode, allFlights, heldReq, lastUpdated, interval, settled>>

\* A mode change whose effect arms the new timer without clearing the old one.
SetModeKeepsTimer(m) ==
    /\ appVersion = "App.tsx"
    /\ interval # Null
    /\ m # mode
    /\ mode' = m
    /\ hasLoadedRef' = FALSE
    /\ StartLoad(m, FALSE)
    /\ interval' = Append(interval, m)
    /\ UNCHANGED <<allFlights, heldReq, lastUpdated, settled>>

\* setMode(m): loadFlights is rebuilt for m, so the polling effect is cleaned
\* up (clearInterval) and runs again: hasLoadedRef.current = false,
\* loadFlights(), and a new timer.
SetMode(m) ==
    /\ appVersion = "App.tsx"
    /\ interval # Null
    /\ m # mode
    /\ mode' = m
    /\ hasLoadedRef' = FALSE
    /\ StartLoad(m, FALSE)
    /\ interval' = Some(m)
    /\ UNCHANGED <<allFlights, heldReq, lastUpdated, settled>>

\* App is unmounted: the cleanup of the polling effect, clearInterval(interval).
\* The state of the component is gone with it: what the fetches in flight
\* set when they settle is set on nothing.
Unmount ==
    /\ interval # Null
    /\ interval' = Null
    /\ pending' = {}
    /\ UNCHANGED <<mode, allFlights, loading, error, lastUpdated, hasLoadedRef, nextReq,
                   settled, heldReq>>

\* App after its first render and its polling effect: the first load is in
\* flight and the timer is armed.
PollInit ==
    /\ viewMode = "list" /\ flights = <<>> /\ mounted = FALSE /\ mapInstanceRef = Null
    /\ lastMap = 0 /\ markersRef = EmptyTable /\ mapLayers = {} /\ lastOp = NoOp
    /\ IngestIdle
    /\ appVersion \in {"App.tsx", "part_000"}
    /\ timeRange = (IF appVersion = "App.tsx" THEN 1 ELSE 2)
    /\ searchTerm = <<>>
    /\ clock = 0
    /\ memoNow = 0
    /\ displayedFlights = <<>>
    /\ mode = "arrivals"
    /\ allFlights = <<>>
    /\ loading = TRUE
    /\ error = Null
    /\ lastUpdated = Null
    /\ hasLoadedRef = FALSE
    /\ interval = Some("arrivals")
    /\ pending = {[req |-> 1, mode |-> "arrivals"]}
    /\ nextReq = 1
    /\ settled = <<>>
    /\ heldReq = 0

PollNext ==
    \/ \E p \in pending, n \in 0..MaxItems : FetchResolves(p, n) /\ UNCHANGED <<mapVars, deriveVars, ingestVars>>
    \/ \E p \in pending, msg \in ErrorMessages : FetchRejects(p, msg) /\ UNCHANGED <<mapVars, deriveVars, ingestVars>>
    \/ TimerTick /\ UNCHANGED <<mapVars, deriveVars, ingestVars>>
    \/ ManualRefresh /\ UNCHANGED <<mapVars, deriveVars, ingestVars>>
    \/ \E m \in Modes : SetMode(m) /\ UNCHANGED <<mapVars, deriveVars, ingestVars>>
    \/ Unmount /\ UNCHANGED <<mapVars, deriveVars, ingestVars>>

PollSpec == PollInit /\ [][PollNext]_vars

MaxOf(S) == CHOOSE x \in S : \A y \in S : y <= x

SucceededReqs == {settled[i].req : i \in {j \in 1..Len(settled) : settled[j].ok}}

\* C6: once a fetch has completed successfully, the record list holds the
\* result of the most recently started of the fetches that completed
\* successfully: the result of a superseded fetch that resolves late is
\* not applied.
C6_HeldIsLatestCompleted ==
    SucceededReqs # {} => heldReq = MaxOf(SucceededReqs)

\* In a step that settles a fetch: the entry the step adds to settled.
JustSettled == settled'[Len(settled')]

Settles == Len(settled') = Len(settled) + 1

C24_SuccessReplacesList ==
    [][ (Settles /\ JustSettled.ok) =>
            \E p \in pending :
                /\ p.req = JustSettled.req
                /\ heldReq' = p.req
                /\ \E n \in 0..MaxItems : allFlights' = Payload(p.req, p.mode, n) ]_vars

\* Two polls have succeeded one after the other, the list holds the records
\* of the second and of no other poll.
C24_Witness ==
    /\ Len(settled) = 2
    /\ settled[1].ok /\ settled[2].ok
    /\ allFlights # <<>>
    /\ \A i \in 1..Len(allFlights) : allFlights[i].req = settled[2].req

\* C25: a failed poll leaves the list and lastUpdated as they were and sets
\* the error state to the message of the failure (to the default text when
\* the failure has no message), in both versions of App.
C25_FailureKeepsList ==
    [][ (Settles /\ ~JustSettled.ok) =>
            /\ allFlights' = allFlights
            /\ heldReq' = heldReq
            /\ lastUpdated' = lastUpdated
            /\ error' = Some(IF JustSettled.msg # "" THEN JustSettled.msg
                           ELSE DefaultErrorMessage) ]_vars

\* A poll has succeeded with records, the next one has failed: the records
\* are still held, next to the message of the failure.
C25_Witness ==
    /\ Len(settled) = 2
    /\ settled[1].ok /\ ~settled[2].ok
    /\ allFlights # <<>>
    /\ lastUpdated = Some(1)
    /\ error = Some("Network error: 500")

\* C26: while App is mounted, when no fetch is in flight and the fetch that
\* settled last succeeded, the error state is null, under every
\* interleaving of overlapping loads.
C26_NoStaleError ==
    (interval # Null /\ pending = {} /\ settled # <<>> /\ settled[Len(settled)].ok)
    => error = Null

\* C27: while App is mounted, when no fetch is in flight and no error is
\* shown, every record held was fetched for the mode selected.
C27_ListOfCurrentMode ==
    (interval # Null /\ pending = {} /\ error = Null)
    => \A i \in 1..Len(allFlights) : allFlights[i].mode = mode

C29_OneTimerArmed ==
    [][ /\ Len(interval) <= 1 /\ Len(interval') <= 1
        /\ \A i \in 1..Len(interval') : interval'[i] = mode'
        /\ (nextReq' # nextReq /\ mode' = mode /\ interval' = interval) =>
               pending' \ pending = {[req |-> nextReq + 1, mode |-> mode]} ]_vars

\* The mode has been changed while the first load was in flight, and the
\* timer armed by the change has fired: its load is for departures.
C29_Witness ==
    /\ mode = "departures"
    /\ interval = <<"departures">>
    /\ settled = <<>>
    /\ hasLoadedRef
    /\ pending = {[req |-> 1, mode |-> "arrivals"], [req |-> 2, mode |-> "departures"],
                  [req |-> 3, mode |-> "departures"]}

(***************************************************************************)
(* App: displayedFlights, the time-window / search derivation.             *)
(* src/App.tsx derives by mode; the App of src/unnamed/part_000 shows      *)
(* arrivals only. appVersion says which of the two is running.             *)
(***************************************************************************)

MaxFlights == 2

\* new Date(timeRef).getTime() of an ISO time string
DateOf(s) == s[1]

\* An instant of the day, in ms.
At(h, m, ms) == (h * 60 + m) * 60 * 1000 + ms

Record(iata, number, depAirport, depEst, depSched, arrAirport, arrEst, arrSched, airline) ==
    [ flight    |-> [iata |-> iata, number |-> number],
      departure |-> [airport |-> depAirport, estimated |-> depEst, scheduled |-> depSched],
      arrival   |-> [airport |-> arrAirport, estimated |-> arrEst, scheduled |-> arrSched],
      airline   |-> [name |-> airline],
      live      |-> Null ]

FlightPool ==
    { Record(<<"A", "B", "1">>, <<"1">>,
             <<"R", "o", "m">>, Some(At(11, 0, 0)), Some(At(10, 50, 0)),
             <<"L", "X", "R">>, Some(At(13, 0, 0)), Some(At(12, 50, 0)),
             <<"S", "w">>),
      Record(<<>>, <<"L", "X", "2">>,
             <<"R", "o", "m">>, Some(At(10, 59, 59999)), Some(At(11, 30, 0)),
             <<"R", "o", "m">>, Some(At(13, 0, 1)), Some(At(13, 0, 0)),
             <<"S", "w">>),
      Record(<<"L", "X", "3">>, <<"3">>,
             <<>>, Null, Null,
             <<"R", "o", "m">>, Null, Some(At(13, 0, 0)),
             <<"L", "x">>),
      Record(<<"A", "B", "4">>, <<"4">>,
             <<"R", "o", "m">>, Null, Some(At(11, 0, 0)),
             <<"G", "v", "a">>, Null, Null,
             <<"S", "w">>),
      Record(<<"A", "B", "5">>, <<"5">>,
             <<"L", "X", "R">>, Some(At(15, 0, 0)), Some(At(14, 0, 0)),
             <<"G", "v", "a">>, Some(At(11, 5, 0)), Some(At(11, 0, 0)),
             <<"S", "w">>) }

FlightLists == SeqsUpTo(FlightPool, MaxFlights)

\* The window buttons: [1, 3, 5].map(hours => ...)
TimeRanges == {1, 3, 5}

SearchTerms == {<<>>, <<"L", "x">>}

Clocks == {At(12, 0, 0), At(12, 0, 1)}

\* String.prototype.toLowerCase on the characters the records use
LowerChar(c) ==
    CASE c = "A" -> "a" [] c = "B" -> "b" [] c = "C" -> "c" [] c = "D" -> "d"
      [] c = "E" -> "e" [] c = "G" -> "g" [] c = "L" -> "l" [] c = "R" -> "r"
      [] c = "S" -> "s" [] c = "X" -> "x" [] c = "Z" -> "z"
      [] OTHER -> c

toLowerCase(s) == [i \in 1..Len(s) |-> LowerChar(s[i])]

\* String.prototype.includes
includes(s, sub) ==
    \E i \in 0..(Len(s) - Len(sub)) : SubSeq(s, i + 1, i + Len(sub)) = sub

timeRefScheduledFirst(m, f) ==
    IF m = "arrivals"
    THEN StrOr(f.arrival.scheduled, f.arrival.estimated)
    ELSE StrOr(f.departure.scheduled, f.departure.estimated)

\* mode === 'arrivals' ? (arrival.estimated || arrival.scheduled)
\*                     : (departure.estimated || departure.scheduled)
timeRef(m, f) ==
    IF m = "arrivals"
    THEN StrOr(f.arrival.estimated, f.arrival.scheduled)
    ELSE StrOr(f.departure.estimated, f.departure.scheduled)

\* flight.arrival.estimated || flight.arrival.scheduled
timeRefPart000(f) == StrOr(f.arrival.estimated, f.arrival.scheduled)

\* new Date(now.getTime() + timeRange * 60 * 60 * 1000)
rangeEnd(now, tr) == now + tr * 60 * 60 * 1000

\* new Date(now.getTime() - 60 * 60 * 1000)
rangeStart(now) == now - 60 * 60 * 1000

\* new Date(now.getTime() - 30 * 60 * 1000)
rangeStartPart000(now) == now - 30 * 60 * 1000

\* The predicate of allFlights.filter in src/App.tsx
inWindow(now, tr, m, f) ==
    /\ timeRef(m, f) # <<>>
    /\ DateOf(timeRef(m, f)) >= rangeStart(now)
    /\ DateOf(timeRef(m, f)) <= rangeEnd(now, tr)

\* The predicate of allFlights.filter in src/unnamed/part_000
inWindowPart000(now, tr, f) ==
    /\ timeRefPart000(f) # <<>>
    /\ DateOf(timeRefPart000(f)) >= rangeStartPart000(now)
    /\ DateOf(timeRefPart000(f)) <= rangeEnd(now, tr)

\* The comparator's key: new Date(<the reference time>).getTime()
sortKey(m, f) == DateOf(timeRef(m, f))

RECURSIVE InsertBeforeEqual(_, _, _)
InsertBeforeEqual(sorted, f, m) ==
    IF sorted = <<>> THEN <<f>>
    ELSE IF sortKey(m, Head(sorted)) < sortKey(m, f)
         THEN <<Head(sorted)>> \o InsertBeforeEqual(Tail(sorted), f, m)
         ELSE <<f>> \o sorted

\* f is placed behind every record that does not compare greater than it.
RECURSIVE InsertByTime(_, _, _)
InsertByTime(sorted, f, m) ==
    IF sorted = <<>> THEN <<f>>
    ELSE IF sortKey(m, Head(sorted)) <= sortKey(m, f)
         THEN <<Head(sorted)>> \o InsertByTime(Tail(sorted), f, m)
         ELSE <<f>> \o sorted

RECURSIVE sortTiesReversed(_, _)
sortTiesReversed(fs, m) ==
    IF fs = <<>> THEN <<>>
    ELSE InsertBeforeEqual(sortTiesReversed(SubSeq(fs, 1, Len(fs) - 1), m), fs[Len(fs)], m)

\* filtered.sort((a, b) => timeA - timeB): Array.prototype.sort is stable
RECURSIVE sortByTime(_, _)
sortByTime(fs, m) ==
    IF fs = <<>> THEN <<>>
    ELSE InsertByTime(sortByTime(SubSeq(fs, 1, Len(fs) - 1), m), fs[Len(fs)], m)

\* The predicate of the search filter in src/App.tsx
matches(f, search) ==
    \/ includes(toLowerCase(f.flight.iata), search)
    \/ includes(toLowerCase(f.flight.number), search)
    \/ includes(toLowerCase(f.departure.airport), search)
    \/ includes(toLowerCase(f.arrival.airport), search)
    \/ includes(toLowerCase(f.airline.name), search)

\* The predicate of the search filter in src/unnamed/part_000
matchesPart000(f, search) ==
    \/ includes(toLowerCase(f.flight.iata), search)
    \/ includes(toLowerCase(f.flight.number), search)
    \/ includes(toLowerCase(f.departure.airport), search)
    \/ includes(toLowerCase(f.airline.name), search)

\* The search applied to allFlights instead of the windowed, sorted list.
displayedFlightsSearchAll(all, now, tr, term, m) ==
    IF Len(all) = 0 THEN <<>>
    ELSE LET Keep(f)  == inWindow(now, tr, m, f)
             Match(f) == matches(f, toLowerCase(term))
         IN  IF term # <<>> THEN SelectSeq(all, Match)
             ELSE sortByTime(SelectSeq(all, Keep), m)

\* displayedFlights of src/App.tsx
displayedFlightsApp(all, now, tr, term, m) ==
    IF Len(all) = 0 THEN <<>>
    ELSE LET Keep(f)  == inWindow(now, tr, m, f)
             Match(f) == matches(f, toLowerCase(term))
             filtered == sortByTime(SelectSeq(all, Keep), m)
         IN  IF term # <<>> THEN SelectSeq(filtered, Match) ELSE filtered

\* displayedFlights of src/unnamed/part_000
displayedFlightsPart000(all, now, tr, term) ==
    IF Len(all) = 0 THEN <<>>
    ELSE LET Keep(f)  == inWindowPart000(now, tr, f)
             Match(f) == matchesPart000(f, toLowerCase(term))
             filtered == sortByTime(SelectSeq(all, Keep), "arrivals")
         IN  IF term # <<>> THEN SelectSeq(filtered, Match) ELSE filtered

Derive(version, all, now, tr, term, m) ==
    IF version = "App.tsx"
    THEN displayedFlightsApp(all, now, tr, term, m)
    ELSE displayedFlightsPart000(all, now, tr, term)

\* A dependency of the useMemo changed: it is evaluated again, reading the clock.
Recompute(all, tr, term, m) ==
    /\ memoNow' = clock
    /\ displayedFlights' = Derive(appVersion, all, clock, tr, term, m)
    /\ UNCHANGED <<appVersion, clock>>

derivePollVars == <<loading, error, lastUpdated, hasLoadedRef, interval, pending, nextReq,
                    settled, heldReq>>

\* A poll is applied: setAllFlights(data). (The polling itself is PollSpec.)
SetAllFlights(data) ==
    /\ allFlights' = data
    /\ Recompute(data, timeRange, searchTerm, mode)
    /\ UNCHANGED <<mode, timeRange, searchTerm>>

\* onClick={() => setTimeRange(hours)}
SetTimeRange(h) ==
    /\ h # timeRange
    /\ timeRange' = h
    /\ Recompute(allFlights, h, searchTerm, mode)
    /\ UNCHANGED <<mode, allFlights, searchTerm>>

\* onChange={(e) => setSearchTerm(e.target.value)}
SetSearchTerm(t) ==
    /\ t # searchTerm
    /\ searchTerm' = t
    /\ Recompute(allFlights, timeRange, t, mode)
    /\ UNCHANGED <<mode, allFlights, timeRange>>

\* mode missing from the dependencies of the useMemo: the list is kept.
SwitchModeKeepsList(m) ==
    /\ appVersion = "App.tsx"
    /\ m # mode
    /\ mode' = m
    /\ UNCHANGED <<allFlights, timeRange, searchTerm, appVersion, clock, memoNow,
                   displayedFlights>>

\* onClick={() => setMode(m)} of src/App.tsx, as far as the derived list goes:
\* the list held is derived again under the new mode.
SwitchMode(m) ==
    /\ appVersion = "App.tsx"
    /\ m # mode
    /\ mode' = m
    /\ Recompute(allFlights, timeRange, searchTerm, m)
    /\ UNCHANGED <<allFlights, timeRange, searchTerm>>

\* Time passes; the useMemo is not evaluated again.
ClockAdvances(c) ==
    /\ c > clock
    /\ clock' = c
    /\ UNCHANGED <<appVersion, mode, allFlights, timeRange, searchTerm, memoNow,
                   displayedFlights>>

DeriveInit ==
    /\ viewMode = "list" /\ flights = <<>> /\ mounted = FALSE /\ mapInstanceRef = Null
    /\ lastMap = 0 /\ markersRef = EmptyTable /\ mapLayers = {} /\ lastOp = NoOp
    /\ loading = FALSE /\ error = Null /\ lastUpdated = Null /\ hasLoadedRef = FALSE
    /\ interval = Null /\ pending = {} /\ nextReq = 0 /\ settled = <<>> /\ heldReq = 0
    /\ IngestIdle
    /\ appVersion \in {"App.tsx", "part_000"}
    /\ mode = "arrivals"
    /\ allFlights = <<>>
    /\ timeRange = (IF appVersion = "App.tsx" THEN 1 ELSE 2)
    /\ searchTerm = <<>>
    /\ clock = At(12, 0, 0)
    /\ memoNow = At(12, 0, 0)
    /\ displayedFlights = <<>>

DeriveNext ==
    \/ \E data \in FlightLists : SetAllFlights(data) /\ UNCHANGED <<mapVars, derivePollVars, ingestVars>>
    \/ \E h \in TimeRanges : SetTimeRange(h) /\ UNCHANGED <<mapVars, derivePollVars, ingestVars>>
    \/ \E t \in SearchTerms : SetSearchTerm(t) /\ UNCHANGED <<mapVars, derivePollVars, ingestVars>>
    \/ \E m \in Modes : SwitchMode(m) /\ UNCHANGED <<mapVars, derivePollVars, ingestVars>>
    \/ \E c \in Clocks : ClockAdvances(c) /\ UNCHANGED <<mapVars, derivePollVars, ingestVars>>

DeriveSpec == DeriveInit /\ [][DeriveNext]_vars

(***************************************************************************)
(* Claims on the derivation                                                *)
(***************************************************************************)

Range(q) == {q[i] : i \in 1..Len(q)}

\* The reference time in the claims' words: the estimated time of the
\* selected side when truthy, else its scheduled time.
ClaimRef(m, f) ==
    IF m = "arrivals"
    THEN (IF f.arrival.estimated # <<>> THEN f.arrival.estimated ELSE f.arrival.scheduled)
    ELSE (IF f.departure.estimated # <<>> THEN f.departure.estimated
          ELSE f.departure.scheduled)

\* t lies in [now - back minutes, now + hours hours], both bounds included.
InClosedWindow(t, now, back, hours) ==
    /\ t # <<>>
    /\ now - back * 60 * 1000 <= t[1]
    /\ t[1] <= now + hours * 60 * 60 * 1000

\* The look-back of the running App, in minutes.
LookBack == IF appVersion = "App.tsx" THEN 60 ELSE 30

ArrivalAt(t) ==
    Record(<<"E">>, <<"1">>, <<>>, Null, Null, <<>>, Some(t), Null, <<>>)

\* The displayed records are those of allFlights whose reference time lies
\* in the closed window with the look-back `back` (all of them when no
\* search term is set).
WindowIs(back) ==
    \A f \in Range(allFlights) :
        /\ f \in Range(displayedFlights)
            => InClosedWindow(timeRef(mode, f), memoNow, back, timeRange)
        /\ (searchTerm = <<>> /\ InClosedWindow(timeRef(mode, f), memoNow, back, timeRange))
            => f \in Range(displayedFlights)

\* C7: a record is kept iff now - 60 min <= t <= now + windowHours h, both
\* bounds included, t being its reference time (all kept records are
\* displayed when no search term is set, and no other record ever is).
C7_WindowSixtyMinutes == WindowIs(60)

\* The window each version of App implements: src/App.tsx looks back 60
\* minutes (at 12:00 with one hour, 11:05 and 12:45 are kept and 13:05 is
\* dropped), src/unnamed/part_000 looks back 30 minutes (11:05 is dropped
\* too); both include the two bounds.
WindowPerVersion ==
    /\ WindowIs(LookBack)
    /\ Range(Derive(appVersion,
                    <<ArrivalAt(At(11, 5, 0)), ArrivalAt(At(12, 45, 0)), ArrivalAt(At(13, 5, 0))>>,
                    At(12, 0, 0), 1, <<>>, "arrivals"))
         = IF appVersion = "App.tsx"
           THEN {ArrivalAt(At(11, 5, 0)), ArrivalAt(At(12, 45, 0))}
           ELSE {ArrivalAt(At(12, 45, 0))}

\* C8: the reference time is the estimated time of the side the mode selects
\* when truthy, else the scheduled one: a record is displayed only if that
\* time lies in the window, and a record with neither time on the selected
\* side is never displayed.
C8_ReferenceTime ==
    \A f \in Range(allFlights) :
        /\ ClaimRef(mode, f) = <<>> => f \notin Range(displayedFlights)
        /\ f \in Range(displayedFlights)
            => InClosedWindow(ClaimRef(mode, f), memoNow, LookBack, timeRange)
        /\ (searchTerm = <<>>
                /\ InClosedWindow(ClaimRef(mode, f), memoNow, LookBack, timeRange))
            => f \in Range(displayedFlights)

\* In departures mode, a record without departure times is left out and one
\* without estimated departure is shown by its scheduled departure.
C8_Witness ==
    /\ mode = "departures"
    /\ \E f \in Range(allFlights) :
        f.departure.estimated = <<>> /\ f.departure.scheduled = <<>>
    /\ \E g \in Range(displayedFlights) :
        g.departure.estimated = <<>> /\ g.departure.scheduled # <<>>

\* C9: the displayed list is in non-decreasing order of reference time, and
\* the displayed records of one reference time are in the order they have
\* in allFlights.
C9_SortedStable ==
    /\ \A i, j \in 1..Len(displayedFlights) :
        i < j => DateOf(ClaimRef(mode, displayedFlights[i]))
                    <= DateOf(ClaimRef(mode, displayedFlights[j]))
    /\ \A k \in {DateOf(ClaimRef(mode, f)) : f \in Range(displayedFlights)} :
        LET Shown(f) == /\ f \in Range(displayedFlights)
                        /\ DateOf(ClaimRef(mode, f)) = k
        IN  SelectSeq(displayedFlights, Shown) = SelectSeq(allFlights, Shown)

\* Two different records of one reference time are displayed.
C9_Witness ==
    /\ Len(displayedFlights) = 2
    /\ displayedFlights[1] # displayedFlights[2]
    /\ DateOf(ClaimRef(mode, displayedFlights[1])) = DateOf(ClaimRef(mode, displayedFlights[2]))

\* A match in the claim's words: the lower-cased term occurs in the
\* lower-cased IATA code, number, departure airport or airline name, or,
\* in departures mode only, in the arrival airport name.
ClaimMatch(m, term, f) ==
    \/ includes(toLowerCase(f.flight.iata), toLowerCase(term))
    \/ includes(toLowerCase(f.flight.number), toLowerCase(term))
    \/ includes(toLowerCase(f.departure.airport), toLowerCase(term))
    \/ includes(toLowerCase(f.airline.name), toLowerCase(term))
    \/ (m = "departures" /\ includes(toLowerCase(f.arrival.airport), toLowerCase(term)))

\* C10: with a search term, the records displayed are those of the window
\* that match in the claim's sense; in arrivals mode the arrival airport
\* name is not searched.
C10_SearchFields ==
    searchTerm # <<>> =>
        \A f \in Range(Derive(appVersion, allFlights, memoNow, timeRange, <<>>, mode)) :
            f \in Range(displayedFlights) <=> ClaimMatch(mode, searchTerm, f)

\* The search predicate of the running App, on the lower-cased term.
RunningMatch(f) ==
    IF appVersion = "App.tsx"
    THEN matches(f, toLowerCase(searchTerm))
    ELSE matchesPart000(f, toLowerCase(searchTerm))

\* The windowed, sorted list: the derivation without a search term.
WindowedSorted == Derive(appVersion, allFlights, memoNow, timeRange, <<>>, mode)

\* C11: the output is the windowed, sorted list restricted to the matching
\* records, in the same order; no record outside the window is displayed,
\* matching or not; with an empty term the output is the windowed, sorted
\* list itself.
C11_SearchAfterWindow ==
    /\ searchTerm # <<>> => displayedFlights = SelectSeq(WindowedSorted, RunningMatch)
    /\ searchTerm = <<>> => displayedFlights = WindowedSorted
    /\ \A f \in Range(displayedFlights) :
        InClosedWindow(ClaimRef(mode, f), memoNow, LookBack, timeRange)

\* A search is on, a matching record lies outside the window, and a record
\* of the window is displayed.
C11_Witness ==
    /\ searchTerm # <<>>
    /\ displayedFlights # <<>>
    /\ \E f \in Range(allFlights) :
        /\ RunningMatch(f)
        /\ ~InClosedWindow(ClaimRef(mode, f), memoNow, LookBack, timeRange)

\* C12: the list displayed is a function of the record list, now, mode,
\* windowHours and searchTerm alone, now being the instant supplied for the
\* display and not one read inside the derivation: it is the derivation of
\* the present inputs at the present instant.
C12_FunctionOfInputs ==
    displayedFlights = Derive(appVersion, allFlights, clock, timeRange, searchTerm, mode)

\* C13: a mode change derives the list again under the new mode, and
\* switching back, with list, now, window and term unchanged, gives the list
\* displayed before the change.
C13_ModeRoundTrip ==
    [][ (mode' # mode /\ memoNow' = memoNow)
          => /\ displayedFlights'
                  = Derive(appVersion', allFlights', memoNow', timeRange', searchTerm', mode')
             /\ Derive(appVersion', allFlights', memoNow', timeRange', searchTerm', mode)
                  = displayedFlights ]_vars

\* Departures are displayed after a mode change, and they are not the list
\* the arrivals mode displays for the same inputs.
C13_Witness ==
    /\ mode = "departures"
    /\ displayedFlights # <<>>
    /\ Derive(appVersion, allFlights, memoNow, timeRange, searchTerm, "arrivals") # <<>>
    /\ displayedFlights
         # Derive(appVersion, allFlights, memoNow, timeRange, searchTerm, "arrivals")

(***************************************************************************)
(* aviationService: fetchArrivals                                          *)
(*                                                                         *)
(* src/services/aviationService.ts holds two fetchArrivals, one per        *)
(* provider schema: the AviationStack one returns json.data as it is, the  *)
(* Flightradar24 one maps each item of the arrivals array to a record.     *)
(* Messages of errors are never searched and are TLA+ strings. Provider    *)
(* times are epoch seconds; the model's are the first seconds of the       *)
(* epoch, so that every product stays in the range of the integers.        *)
(***************************************************************************)

MaxRawItems == 2

\* item.flight of the Flightradar24 schema, as far as fetchArrivals reads it
RawFlight(statusText, schedArr, estArr, eta, realArr, schedDep, estDep, city, originName, originIata, airlineName, number) ==
    [ status   |-> [text |-> statusText],
      time     |-> [ scheduled |-> [arrival |-> schedArr, departure |-> schedDep],
                     estimated |-> [arrival |-> estArr, departure |-> estDep],
                     other     |-> [eta |-> eta],
                     real      |-> [arrival |-> realArr, departure |-> Null] ],
      airport  |-> [origin |-> [city |-> city, name |-> originName, iata |-> originIata]],
      airline  |-> [name |-> airlineName],
      identification |-> [number |-> number] ]

RawItem(f) == [flight |-> Some(f)]

\* An item of the array without its flight object.
ItemWithoutFlight == [flight |-> Null]

RawPool ==
    { RawItem(RawFlight(Some(<<"E", "s", "t", "i", "m", "a", "t", "e", "d", " ", "L", "a", "n", "d", "i", "n", "g", " ", "1", "0", "m", "i", "n", " ", "l", "a", "t", "e">>),
                          Some(600), Some(1200), Null, Null, Some(600), Some(1200),
                          <<"R", "o", "m">>, <<"F", "i", "u", "m", "i", "c", "i", "n", "o">>, <<"F", "C", "O">>, <<"S", "w">>, <<"L", "X", "1">>)),
      RawItem(RawFlight(Some(<<"L", "a", "n", "d", "e", "d", " ", "1", "0", ":", "0", "5">>),
                          Some(600), Some(630), Null, Some(630), Some(1200), Some(600),
                          <<>>, <<"G", "e", "n", "e", "v", "a">>, <<"G", "V", "A">>, <<"S", "w">>, <<"L", "X", "2">>)),
      RawItem(RawFlight(Some(<<"D", "e", "l", "a", "y", "e", "d", ",", " ", "l", "a", "n", "d", "e", "d">>),
                          Some(600), Some(629), Some(660), Null, Null, Null,
                          <<>>, <<>>, <<"G", "V", "A">>, <<>>, <<"L", "X", "3">>)),
      RawItem(RawFlight(Some(<<"C", "a", "n", "c", "e", "l", "l", "e", "d">>),
                          Some(600), Null, Some(1200), Null, Some(600), Null,
                          <<>>, <<>>, <<>>, <<"S", "w">>, <<"L", "X", "4">>)),
      RawItem(RawFlight(Some(<<"D", "i", "v", "e", "r", "t", "e", "d">>),
                          Some(600), Null, Null, Null, Some(600), Some(0),
                          <<"R", "o", "m">>, <<>>, <<"F", "C", "O">>, <<"S", "w">>, <<"L", "X", "5">>)),
      RawItem(RawFlight(Some(<<"D", "e", "l", "a", "y", "e", "d">>),
                          Some(600), Some(600), Null, Null, Some(600), Some(600),
                          <<"R", "o", "m">>, <<>>, <<"F", "C", "O">>, <<"S", "w">>, <<"L", "X", "6">>)),
      RawItem(RawFlight(Some(<<"A", "c", "t", "i", "v", "e">>),
                          Some(1200), Some(600), Null, Null, Null, Some(600),
                          <<"R", "o", "m">>, <<>>, <<"F", "C", "O">>, <<"S", "w">>, <<"L", "X", "7">>)),
      RawItem(RawFlight(Some(<<"D", "e", "p", "a", "r", "t", "e", "d", " ", "1", "0", ":", "0", "5">>),
                          Null, Null, Null, Null, Null, Null,
                          <<"R", "o", "m">>, <<>>, <<"F", "C", "O">>, <<"S", "w">>, <<"L", "X", "8">>)),
      RawItem(RawFlight(Null,
                          Some(0), Some(600), Null, Null, Some(0), Some(600),
                          <<"R", "o", "m">>, <<>>, <<"F", "C", "O">>, <<"S", "w">>, <<>>)),
      RawItem(RawFlight(Some(<<"S", "c", "h", "e", "d", "u", "l", "e", "d">>),
                          Some(600), Null, Some(0), Null, Some(1200), Some(1260),
                          <<"R", "o", "m">>, <<>>, <<"F", "C", "O">>, <<"S", "w">>, <<"L", "X", "1">>)),
      ItemWithoutFlight }

\* Records as AviationStack delivers them (FlightData already).
AviationStackPool ==
    { Record(<<"L", "X", "1">>, <<"1">>, <<"R", "o", "m">>, Some(1200000), Some(600000),
             <<"Z", "R", "H">>, Some(1200000), Some(600000), <<"S", "w">>),
      Record(<<>>, <<"L", "X", "2">>, <<"R", "o", "m">>, Null, Some(600000),
             <<"Z", "R", "H">>, Null, Some(600000), <<"S", "w">>) }

\* A JSON value where an array is expected: absent, an object, or an array.
Absent == [kind |-> "absent"]
AnObject == [kind |-> "object"]
List(items) == [kind |-> "list", items |-> items]

\* The error object of a provider's error envelope.
ProviderErrors ==
    { [message |-> "Invalid access key", code |-> "invalid_access_key"],
      [message |-> "", code |-> "usage_limit_reached"],
      [message |-> "", code |-> ""] }

HttpResponse(schema, ok, status, err, array) ==
    [schema |-> schema, ok |-> ok, status |-> status, error |-> err, array |-> array]

Schemas == {"aviationstack", "flightradar24"}

ItemsOf(schema) ==
    IF schema = "aviationstack" THEN SeqsUpTo(AviationStackPool, MaxRawItems)
    ELSE SeqsUpTo(RawPool, MaxRawItems)

\* The responses a fetch can get: a non-2xx status, an error envelope, a
\* body without the array or with an object in its place, a body with the array.
Responses ==
    UNION { {HttpResponse(s, FALSE, "500 Internal Server Error", Null, Absent)}
            \cup {HttpResponse(s, TRUE, "200 OK", Some(e), Absent) : e \in ProviderErrors}
            \cup {HttpResponse(s, TRUE, "200 OK", Null, Absent),
                  HttpResponse(s, TRUE, "200 OK", Null, AnObject)}
            \cup {HttpResponse(s, TRUE, "200 OK", Null, List(items)) : items \in ItemsOf(s)}
          : s \in Schemas }

\* The outcomes of the promise fetchArrivals returns.
Resolved(value) == [resolved |-> TRUE, value |-> value]
Rejected(name, message, detail) ==
    [resolved |-> FALSE, name |-> name, message |-> message, detail |-> detail]

\* JavaScript `a || b` on TLA+ strings.
TextOr(a, b) == IF a # "" THEN a ELSE b

\* Math.round(num / den) for num >= 0, den > 0: the nearest integer, halves up.
MathRound(num, den) == (num + den \div 2) \div den

\* new Date(ms).toISOString(): the time string of the instant ms.
toISOString(ms) == <<ms>>

\* new Date(ms).toISOString().split('T')[0]: the UTC day of the instant ms,
\* counted from 1970-01-01.
IsoDay(ms) == ms \div (24 * 60 * 60 * 1000)

\* The status mapping, on the lower-cased status text
statusOf(rawStatus) ==
    IF includes(rawStatus, <<"l", "a", "n", "d", "e", "d">>) THEN "LANDED"
    ELSE IF includes(rawStatus, <<"c", "a", "n", "c", "e", "l", "l", "e", "d">>)
    THEN "CANCELLED"
    ELSE IF includes(rawStatus, <<"d", "i", "v", "e", "r", "t", "e", "d">>)
    THEN "DIVERTED"
    ELSE IF \/ includes(rawStatus, <<"e", "s", "t", "i", "m", "a", "t", "e", "d">>)
            \/ includes(rawStatus, <<"d", "e", "l", "a", "y", "e", "d">>)
            \/ includes(rawStatus, <<"a", "c", "t", "i", "v", "e">>)
    THEN "ACTIVE"
    ELSE "SCHEDULED"

\* (f.time?.scheduled?.arrival || 0) * 1000
scheduledArrOf(f) == NumOr(f.time.scheduled.arrival, 0) * 1000

\* (f.time?.estimated?.arrival || f.time?.other?.eta || scheduledArr) * 1000:
\* scheduledArr, already in ms, is multiplied as the seconds are.
estimatedArrOf(f) ==
    NumOr(f.time.estimated.arrival, NumOr(f.time.other.eta, scheduledArrOf(f))) * 1000

\* The comparison taken as >=: equal instants give the delay 0.
delayMinutesNotEarlier(f) ==
    IF estimatedArrOf(f) >= scheduledArrOf(f)
    THEN Some(MathRound(estimatedArrOf(f) - scheduledArrOf(f), 60000))
    ELSE Null

\* estimatedArr > scheduledArr ? Math.round((estimatedArr - scheduledArr) / 60000) : null
delayMinutesOf(f) ==
    IF estimatedArrOf(f) > scheduledArrOf(f)
    THEN Some(MathRound(estimatedArrOf(f) - scheduledArrOf(f), 60000))
    ELSE Null

\* city || name || code.iata, then || 'Unknown Origin'
originNameOf(f) ==
    StrOr(StrOr(StrOr(f.airport.origin.city, f.airport.origin.name), f.airport.origin.iata),
          <<"U", "n", "k", "n", "o", "w", "n", " ", "O", "r", "i", "g", "i", "n">>)

\* The record the callback of arrivals.map returns for the flight object f.
\* (Fields that no part of the model reads, copied from the item with a
\* default, are left out: timezones, ICAO codes, terminals, gates, baggage,
\* runway times, codeshare, aircraft.)
normalize(f) ==
    [ flight_date   |-> IsoDay(scheduledArrOf(f)),
      flight_status |-> statusOf(toLowerCase(IF f.status.text = Null THEN <<>>
                                             ELSE f.status.text[1])),
      departure |-> [ airport   |-> originNameOf(f),
                      iata      |-> f.airport.origin.iata,
                      delay     |-> Null,
                      scheduled |-> toISOString(NumOr(f.time.scheduled.departure, 0) * 1000),
                      estimated |-> toISOString(NumOr(f.time.estimated.departure, 0) * 1000),
                      actual    |-> IF NumTruthy(f.time.real.departure)
                                    THEN toISOString(f.time.real.departure[1] * 1000)
                                    ELSE Null ],
      arrival   |-> [ airport   |-> <<"Z", "u", "r", "i", "c", "h">>,
                      iata      |-> <<"Z", "R", "H">>,
                      delay     |-> delayMinutesOf(f),
                      scheduled |-> toISOString(scheduledArrOf(f)),
                      estimated |-> toISOString(estimatedArrOf(f)),
                      actual    |-> IF NumTruthy(f.time.real.arrival)
                                    THEN toISOString(f.time.real.arrival[1] * 1000)
                                    ELSE Null ],
      airline   |-> [name |-> StrOr(f.airline.name,
                                    <<"U", "n", "k", "n", "o", "w", "n", " ",
                                      "A", "i", "r", "l", "i", "n", "e">>)],
      flight    |-> [ number |-> f.identification.number,
                      iata   |-> f.identification.number ],
      live      |-> Null ]

\* arrivals.map(item => ...): reading f.status of an item without flight
\* throws a TypeError, which ends the map and rejects the promise.
mapItems(items) ==
    IF \E i \in 1..Len(items) : items[i].flight = Null
    THEN Rejected("TypeError", "Cannot read properties of undefined (reading 'status')", "")
    ELSE Resolved(List([i \in 1..Len(items) |-> normalize(items[i].flight[1])]))

\* fetchArrivals of the AviationStack schema
fetchArrivalsAviationStack(r) ==
    IF ~r.ok THEN Rejected("Error", "Network error: ", r.status)
    ELSE IF r.error # Null
    THEN Rejected("Error", "API Error: ",
                  TextOr(r.error[1].message, TextOr(r.error[1].code, "Unknown error")))
    ELSE IF r.array.kind = "absent" THEN Resolved(List(<<>>))
    ELSE Resolved(r.array)

\* fetchArrivals of the Flightradar24 schema
fetchArrivalsFlightradar24(r) ==
    IF ~r.ok THEN Rejected("Error", "Data Provider Error: ", r.status)
    ELSE IF r.array.kind # "list"
    THEN Rejected("Error", "Received invalid data format from flight provider", "")
    ELSE mapItems(r.array.items)

fetchArrivals(r) ==
    IF r.schema = "aviationstack" THEN fetchArrivalsAviationStack(r)
    ELSE fetchArrivalsFlightradar24(r)

(***************************************************************************)
(* App loading from the service. App (src/App.tsx) is mounted, its first   *)
(* loadFlights awaits the fetch; the fetch settles as fetchArrivals        *)
(* decides from the response, then loadFlights continues. Whatever the     *)
(* mode, the records come from fetchArrivals, the one fetch in the         *)
(* sources. The clock stands at 01:06:40 of the first day of the epoch.    *)
(***************************************************************************)

\* The promise of fetchArrivals settles.
FetchSettles ==
    /\ response # Null
    /\ fetched = Null
    /\ fetched' = Some(fetchArrivals(response[1]))
    /\ UNCHANGED <<response, mapVars, pollVars, deriveVars>>

\* loadFlights after its await: setAllFlights(data), setLastUpdated(new Date()),
\* hasLoadedRef.current = true, or setError(err.message || ...) in the catch
\* block; setLoading(false) in the finally block. A value that is not an
\* array has no length: displayedFlights is [] for it, as for [].
LoadContinues ==
    /\ fetched # Null
    /\ loading
    /\ loading' = FALSE
    /\ IF fetched[1].resolved
       THEN LET data == IF fetched[1].value.kind = "list"
                        THEN fetched[1].value.items ELSE <<>>
            IN  /\ allFlights' = data
                /\ Recompute(data, timeRange, searchTerm, mode)
                /\ lastUpdated' = Some(clock)
                /\ hasLoadedRef' = TRUE
                /\ UNCHANGED error
       ELSE /\ error' = Some([ message |-> TextOr(fetched[1].message, DefaultErrorMessage),
                               detail  |-> fetched[1].detail ])
            /\ UNCHANGED <<allFlights, lastUpdated, hasLoadedRef, appVersion, clock,
                           memoNow, displayedFlights>>
    /\ UNCHANGED <<mode, timeRange, searchTerm, interval, pending, nextReq, settled,
                   heldReq, mapVars, ingestVars>>

IngestInit ==
    /\ viewMode = "list" /\ flights = <<>> /\ mounted = FALSE /\ mapInstanceRef = Null
    /\ lastMap = 0 /\ markersRef = EmptyTable /\ mapLayers = {} /\ lastOp = NoOp
    /\ loading = TRUE /\ error = Null /\ lastUpdated = Null /\ hasLoadedRef = FALSE
    /\ interval = Null /\ pending = {} /\ nextReq = 0 /\ settled = <<>> /\ heldReq = 0
    /\ appVersion = "App.tsx"
    /\ mode = "arrivals"
    /\ allFlights = <<>>
    /\ timeRange = 1
    /\ searchTerm = <<>>
    /\ clock = At(1, 6, 40000)
    /\ memoNow = At(1, 6, 40000)
    /\ displayedFlights = <<>>
    /\ response \in {Some(r) : r \in Responses}
    /\ fetched = Null

IngestNext ==
    \/ FetchSettles
    \/ LoadContinues
    \/ \E m \in Modes : SwitchMode(m) /\ UNCHANGED <<mapVars, derivePollVars, ingestVars>>
    \/ \E h \in TimeRanges : SetTimeRange(h) /\ UNCHANGED <<mapVars, derivePollVars, ingestVars>>

IngestSpec == IngestInit /\ [][IngestNext]_vars

(***************************************************************************)
(* Claims on the ingestion                                                 *)
(***************************************************************************)

\* The Flightradar24 fetch resolved with records.
Normalized ==
    /\ response # Null /\ fetched # Null
    /\ response[1].schema = "flightradar24"
    /\ fetched[1].resolved

\* The flight objects given and the records returned, index by index.
RawOf(i) == response[1].array.items[i].flight[1]
RecOf(i) == fetched[1].value.items[i]
Indices == 1..Len(response[1].array.items)

StatusTextOf(f) == toLowerCase(IF f.status.text = Null THEN <<>> ELSE f.status.text[1])

\* The status in the claim's words.
ClaimStatus(text) ==
    IF includes(text, <<"l", "a", "n", "d", "e", "d">>) THEN "LANDED"
    ELSE IF includes(text, <<"c", "a", "n", "c", "e", "l", "l", "e", "d">>) THEN "CANCELLED"
    ELSE IF includes(text, <<"d", "i", "v", "e", "r", "t", "e", "d">>) THEN "DIVERTED"
    ELSE IF \/ includes(text, <<"e", "s", "t", "i", "m", "a", "t", "e", "d">>)
            \/ includes(text, <<"d", "e", "l", "a", "y", "e", "d">>)
            \/ includes(text, <<"a", "c", "t", "i", "v", "e">>)
            \/ includes(text, <<"d", "e", "p", "a", "r", "t", "e", "d">>)
    THEN "ACTIVE"
    ELSE "SCHEDULED"

\* C14: the status of every record is the first match, in the order landed,
\* cancelled, diverted, then estimated / delayed / active / departed (ACTIVE),
\* else SCHEDULED, of its lower-cased status text.
C14_StatusByFirstMatch ==
    Normalized => \A i \in Indices : RecOf(i).flight_status = ClaimStatus(StatusTextOf(RawOf(i)))

\* round(n / d) for n >= 0: the integer nearest to n / d, the upper one of two.
ClaimRound(n, d) ==
    CHOOSE k \in {n \div d, n \div d + 1} : 2 * k * d - d <= 2 * n /\ 2 * n < 2 * k * d + d

\* The delay of a side in the claim's words, from its two instants in ms.
ClaimDelay(estimated, scheduled) ==
    IF estimated > scheduled THEN Some(ClaimRound(estimated - scheduled, 60000)) ELSE Null

\* C15: the arrival delay of every record is round((estimated - scheduled) /
\* 60000) when its arrival estimated instant is later than its arrival
\* scheduled instant, else null; never negative; 10 for estimated =
\* scheduled + 600 s.
C15_ArrivalDelay ==
    Normalized =>
        \A i \in Indices :
            /\ RecOf(i).arrival.delay
                 = ClaimDelay(DateOf(RecOf(i).arrival.estimated),
                              DateOf(RecOf(i).arrival.scheduled))
            /\ RecOf(i).arrival.delay # Null => RecOf(i).arrival.delay[1] >= 0
            /\ (/\ NumTruthy(RawOf(i).time.scheduled.arrival)
                /\ NumTruthy(RawOf(i).time.estimated.arrival)
                /\ RawOf(i).time.estimated.arrival[1]
                     = RawOf(i).time.scheduled.arrival[1] + 600)
                => RecOf(i).arrival.delay = Some(10)

\* One record is ten minutes late, another has estimated = scheduled and no delay.
C15_Witness ==
    /\ Normalized
    /\ \E i, j \in Indices :
        /\ RawOf(i).time.estimated.arrival = Some(1200)
        /\ RawOf(i).time.scheduled.arrival = Some(600)
        /\ RecOf(i).arrival.delay = Some(10)
        /\ RawOf(j).time.estimated.arrival = RawOf(j).time.scheduled.arrival
        /\ RawOf(j).time.scheduled.arrival = Some(600)
        /\ RecOf(j).arrival.delay = Null

\* C16: an item with a scheduled and a later estimated departure gets
\* departure.delay = round((estimated - scheduled) / 60000), whatever its
\* arrival times.
C16_DepartureDelay ==
    Normalized =>
        \A i \in Indices :
            (/\ NumTruthy(RawOf(i).time.scheduled.departure)
             /\ NumTruthy(RawOf(i).time.estimated.departure)
             /\ RawOf(i).time.estimated.departure[1] > RawOf(i).time.scheduled.departure[1])
            => RecOf(i).departure.delay
                 = ClaimDelay(RawOf(i).time.estimated.departure[1] * 1000,
                              RawOf(i).time.scheduled.departure[1] * 1000)

\* C17: without an estimated time of a side (for the arrival: without
\* estimated and without eta), the record's estimated instant of that side
\* is its scheduled instant and the side has no delay; with an eta and no
\* estimated arrival, the estimated arrival is the eta, in ms.
C17_EstimatedDefaultsToScheduled ==
    Normalized =>
        \A i \in Indices :
            /\ (~NumTruthy(RawOf(i).time.estimated.arrival)
                    /\ NumTruthy(RawOf(i).time.other.eta))
                => RecOf(i).arrival.estimated = <<RawOf(i).time.other.eta[1] * 1000>>
            /\ (~NumTruthy(RawOf(i).time.estimated.arrival)
                    /\ ~NumTruthy(RawOf(i).time.other.eta))
                => /\ RecOf(i).arrival.estimated = RecOf(i).arrival.scheduled
                   /\ RecOf(i).arrival.delay = Null
            /\ ~NumTruthy(RawOf(i).time.estimated.departure)
                => /\ RecOf(i).departure.estimated = RecOf(i).departure.scheduled
                   /\ RecOf(i).departure.delay = Null

\* The provider's times of the side the mode selects; the estimated arrival
\* is the estimated time or, failing it, the eta.
RawEstimated(f) ==
    IF mode = "arrivals"
    THEN (IF NumTruthy(f.time.estimated.arrival) THEN f.time.estimated.arrival
          ELSE f.time.other.eta)
    ELSE f.time.estimated.departure

RawScheduled(f) ==
    IF mode = "arrivals" THEN f.time.scheduled.arrival ELSE f.time.scheduled.departure

\* C18: of the records loaded from the provider, one whose estimated time of
\* the selected side was absent or zero is displayed if its scheduled
\* instant lies in the window, and one whose estimated and scheduled times
\* were both absent or zero is not displayed.
C18_ZeroIsMissing ==
    (Normalized /\ ~loading /\ searchTerm = <<>>) =>
        \A i \in Indices :
            /\ (/\ ~NumTruthy(RawEstimated(RawOf(i)))
                /\ NumTruthy(RawScheduled(RawOf(i)))
                /\ InClosedWindow(<<RawScheduled(RawOf(i))[1] * 1000>>, memoNow, 60, timeRange))
                => allFlights[i] \in Range(displayedFlights)
            /\ (~NumTruthy(RawEstimated(RawOf(i))) /\ ~NumTruthy(RawScheduled(RawOf(i))))
                => allFlights[i] \notin Range(displayedFlights)

\* C19: every record a fetch returns has a non-empty identifier: flight.iata
\* or, failing it, flight.number.
C19_IdentifierNonEmpty ==
    (fetched # Null /\ fetched[1].resolved /\ fetched[1].value.kind = "list") =>
        \A i \in 1..Len(fetched[1].value.items) :
            StrOr(fetched[1].value.items[i].flight.iata,
                  fetched[1].value.items[i].flight.number) # <<>>

\* C20: a 2xx body without error object whose top-level array is absent or
\* is not a list makes the fetch fail (never resolve, with or without
\* records), for both schemas.
C20_MalformedResponseFails ==
    (/\ fetched # Null
     /\ response[1].ok
     /\ response[1].error = Null
     /\ response[1].array.kind # "list")
    => ~fetched[1].resolved

\* The provider error of the claim: the explicit error object of the payload.
ProviderErrorOf == response[1].error[1]

\* C21: for both schemas, a 2xx payload with an explicit provider error
\* object makes the fetch fail with the provider error, which carries the
\* provider's message or, without one, its code; loadFlights puts that
\* message into the error state. The envelope is never normalized into
\* records and never reported as another kind of error.
C21_ProviderErrorSurfaces ==
    (fetched # Null /\ response[1].ok /\ response[1].error # Null) =>
        /\ ~fetched[1].resolved
        /\ fetched[1].message = "API Error: "
        /\ TextOr(ProviderErrorOf.message, ProviderErrorOf.code) # "" =>
               fetched[1].detail = TextOr(ProviderErrorOf.message, ProviderErrorOf.code)
        /\ ~loading =>
               /\ error = Some([message |-> fetched[1].message, detail |-> fetched[1].detail])
               /\ allFlights = <<>>

\* The items of the array that carry their flight object.
WellFormedItems(items) == SelectSeq(items, LAMBDA it : it.flight # Null)

\* C23: a Flightradar24 array with an item that lacks its flight object
\* still resolves: the item is left out, the records of the other items are
\* returned in their order.
C23_MalformedItemSkipped ==
    (/\ fetched # Null
     /\ response[1].schema = "flightradar24"
     /\ response[1].ok
     /\ response[1].array.kind = "list")
    => /\ fetched[1].resolved
       /\ fetched[1].value =
              List([i \in 1..Len(WellFormedItems(response[1].array.items)) |->
                        normalize(WellFormedItems(response[1].array.items)[i].flight[1])])

====
